---- MODULE Spec2Model ----
(***************************************************************************)
(* pybotvac account layer (src/pybotvac/account.py): the two auth          *)
(* providers, the Session with its lazily fetched robot set and its maps   *)
(* mapping, and the Account login factories.                               *)
(*                                                                         *)
(* One Session is followed from before its login to any number of calls.   *)
(* The remote service is the environment: every response a call receives   *)
(* is an input of the action, drawn from a small set.  The variable `last` *)
(* is the caller's view of the last call: which operation ran, the         *)
(* requests it put on the wire, what it received and how it ended.         *)
(***************************************************************************)
EXTENDS Integers, Sequences, FiniteSets, TLC

(***************************************************************************)
(* Bounds of the model.                                                    *)
(***************************************************************************)
\* most Robot objects a Session holds (refresh_robots is not called beyond it)
MaxRobots == 2

\* serials the remote service knows
Serials == {"S1", "S2"}
\* tokens: access tokens returned by POST sessions, and OAuth tokens
Tokens == {"tokA", "tokB"}
\* parsed JSON bodies of users/me/robots/{serial}/maps (opaque to the code)
MapLists == {"maps-v1", "maps-v2"}
\* status codes the remote service answers with
OkStatus == {200}
ErrStatus == {404, 500}
\* credentials and nonces of login_basic
Emails == {"user@example.com"}
Passwords == {"pw"}
Nonces == {"nonce-1", "nonce-2"}
\* map image URLs handed to get_map_image: .../<Dir>/<file>?<query>
ImageBase == "https://maps.example.com/img"
ImageDir == "m1"
ImageFiles == {"a.png"}
ImageQuery == "sig=1"
\* directories get_map_image is asked to write into ("" is dest_path omitted)
DestPaths == {"", "/out"}
\* bytes of a map image, and of the body of an error response
ImageBytes == "png-bytes"
ErrorBytes == "error-page"

(***************************************************************************)
(* Python values.                                                          *)
(***************************************************************************)
\* the empty dict {}
EmptyDict == <<>>

\* d.update({k: v})
DictUpdate(d, k, v) ==
    [x \in (DOMAIN d) \cup {k} |-> IF x = k THEN v ELSE d[x]]

\* how a call ends: it returns, or an exception leaves it
NoExc == [type |-> "none"]
HTTPError(status) == [type |-> "HTTPError", status |-> status]
KeyError(key) == [type |-> "KeyError", key |-> key]

\* Response.raise_for_status(): raises for an error status
raise_for_status(status) == status >= 400

\* urljoin(Account.ENDPOINT, path) for the relative paths the code uses
ENDPOINT == "https://beehive.neatocloud.com/"
urljoin(base, path) == base \o path

\* 'users/me/robots/{}/maps'.format(serial)
MapsPath(serial) == "users/me/robots/" \o serial \o "/maps"

\* requests.get(url, headers=headers) as it appears on the wire
Get(url, headers) == [method |-> "GET", url |-> url, headers |-> headers]

\* requests.post(url, json=json, headers=headers) as it appears on the wire
Post(url, json, headers) ==
    [method |-> "POST", url |-> url, json |-> json, headers |-> headers]

(***************************************************************************)
(* Auth providers.                                                         *)
(***************************************************************************)
BasicAuthProvider(access_token) == [kind |-> "basic", token |-> access_token]
OAuthProvider(oauth_token) == [kind |-> "oauth", token |-> oauth_token]
NoProvider == [kind |-> "none"]

\* BasicAuthProvider.generate_headers / OAuthProvider.generate_headers
generate_headers(provider) ==
    IF provider.kind = "basic"
    THEN [Accept |-> "application/vnd.neato.nucleo.v1",
          Authorization |-> "Token token=" \o provider.token]
    ELSE [Accept |-> "application/vnd.neato.beehive.v1+json",
          Authorization |-> "Bearer " \o provider.token]

(***************************************************************************)
(* Responses of the remote service.                                        *)
(***************************************************************************)
\* the keys refresh_robots reads from a robot record, in the order it reads them
RobotKeys == <<"name", "serial", "secret_key", "traits">>

\* a robot record of the users/me/robots response; a record may lack a key
FullRecord(s) == [name |-> "R-" \o s, serial |-> s, secret_key |-> "K-" \o s,
                  traits |-> "traits"]
ShortRecord(s) == [name |-> "R-" \o s, serial |-> s]
RobotRecords == {FullRecord(s) : s \in Serials} \cup {ShortRecord(s) : s \in Serials}

\* the robot lists of the remote service: an account lists a serial once
RobotLists ==
    {b \in UNION {[1..k -> RobotRecords] : k \in 0..Cardinality(Serials)} :
        \A i, j \in DOMAIN b : b[i].serial = b[j].serial => i = j}

\* responses to GET users/me/robots
RobotsResps ==
    {[status |-> st, body |-> b] : st \in OkStatus, b \in RobotLists}
    \cup {[status |-> st, body |-> <<>>] : st \in ErrStatus}

\* responses to GET users/me/robots/{serial}/maps
MapsResps ==
    {[status |-> st, body |-> m] : st \in OkStatus, m \in MapLists}
    \cup {[status |-> st, body |-> <<>>] : st \in ErrStatus}

\* responses to POST sessions; a 2xx body may lack access_token
SessionsResps ==
    {[status |-> st, body |-> [access_token |-> t]] : st \in OkStatus, t \in Tokens}
    \cup {[status |-> st, body |-> [message |-> "ok"]] : st \in OkStatus}
    \cup {[status |-> st, body |-> [message |-> "error"]] : st \in ErrStatus}

\* no response: the call issued no such request
NoResp == [status |-> 0, body |-> <<>>]

\* a map image URL, by its parts
ImageUrls ==
    {[base |-> ImageBase, dir |-> ImageDir, file |-> f, query |-> ImageQuery] :
        f \in ImageFiles}

\* the URL as the string that is requested
UrlString(url) == url.base \o "/" \o url.dir \o "/" \o url.file \o "?" \o url.query

\* responses to the GET of a map image: status and the bytes of the body
ImageResps ==
    {[status |-> st, body |-> ImageBytes] : st \in OkStatus}
    \cup {[status |-> st, body |-> ErrorBytes] : st \in ErrStatus}

\* image.raw: the bytes of the body, and whether they have been read
Stream(bytes, consumed) == [bytes |-> bytes, consumed |-> consumed]
NoStream == [bytes |-> "", consumed |-> FALSE]

(***************************************************************************)
(* The Robot collaborator (robot.py).                                      *)
(***************************************************************************)
\* Robot(name=, serial=, secret=, traits=, auth_provider=): a new object.
\* `ident` is the object's identity; set membership of Robot objects goes by
\* identity, so the model keeps it in the value.
Robot(ident, name, serial, secret, traits) == [id |-> ident, serial |-> serial]

\* the identity of a newly constructed object: none of the live ones
NewIdent(live) ==
    CHOOSE i \in 1..(Cardinality(live) + 1) : \A r \in live : r.id # i

\* Robot.persistent_maps: the robot's own data, opaque to the Session
RobotPersistentMaps(robot) == <<"persistent_maps", robot.id>>

(***************************************************************************)
(* State.                                                                  *)
(***************************************************************************)
VARIABLES
    session,            \* "none" until a login returns the Session, then "live"
    auth_provider,      \* Session.auth_provider
    _robots,            \* Session._robots: set of Robot objects
    robot_serials,      \* Session.robot_serials
    _maps,              \* Session._maps: serial -> parsed maps response
    _headers,           \* Session._headers
    _persistent_maps,   \* Session._persistent_maps
    files,              \* the disk: path -> bytes of the files get_map_image wrote
    last,               \* the last call as its caller saw it
    thr                 \* concurrent readers of session.robots: where each is in
                        \* the accessor, and what it did (used by RaceSpec only)

vars == <<session, auth_provider, _robots, robot_serials, _maps, _headers,
          _persistent_maps, files, last, thr>>

\* the callers that read session.robots concurrently
Threads == {"T1", "T2"}

\* a reader that has not called yet
\*   pc     "idle", then "check" (at `if not self._robots`), "get" (at
\*          requests.get in refresh_robots), "add" (in its loop), "done"
\*   reqs, exc, resp   as in `last`
\*   todo   the records of resp.json() the loop has not reached yet
Idle == [pc |-> "idle", reqs |-> <<>>, exc |-> NoExc, resp |-> NoResp, todo |-> <<>>]

\* The running call: the Session fields it may change, and what it did.
\*   arg    the token login_oauth was called with, the dest_path
\*          get_map_image was called with ("" for the other operations)
\*   reqs   requests issued so far, in order
\*   exc    the exception that ended it, or NoExc
\*   resp   the response to GET users/me/robots (POST sessions for
\*          login_basic), or NoResp when the call made no such request
\*   iter   the robots the maps loop visited, in order, each with the
\*          response to its GET
\*   ret    the mapping a persistent_maps read returned
\*   raw    the byte stream get_map_image returned, or NoStream
\*   disk   the files on disk
Frame(op) ==
    [op |-> op, arg |-> "", robots |-> _robots, maps |-> _maps, reqs |-> <<>>,
     exc |-> NoExc, resp |-> NoResp, iter |-> <<>>, ret |-> EmptyDict,
     raw |-> NoStream, disk |-> files]

\* what the caller sees of a finished call
Seen(f) ==
    [op |-> f.op, arg |-> f.arg, reqs |-> f.reqs, exc |-> f.exc, resp |-> f.resp,
     iter |-> f.iter, ret |-> f.ret, raw |-> f.raw]

Init ==
    /\ session = "none"
    /\ auth_provider = NoProvider
    /\ _robots = {}
    /\ robot_serials = EmptyDict
    /\ _maps = EmptyDict
    /\ _headers = EmptyDict
    /\ _persistent_maps = EmptyDict
    /\ files = EmptyDict
    /\ last = Seen(Frame("none"))
    /\ thr = [t \in Threads |-> Idle]

(***************************************************************************)
(* Session.                                                                *)
(***************************************************************************)
\* the orders in which a for loop may visit the elements of a set
Orders(S) ==
    {o \in [1..Cardinality(S) -> S] : \A i, j \in DOMAIN o : o[i] = o[j] => i = j}

\* the first key of RobotKeys a robot record lacks (0 when it has them all)
MissingKey(record) ==
    IF \A i \in DOMAIN RobotKeys : RobotKeys[i] \in DOMAIN record
    THEN 0
    ELSE CHOOSE i \in DOMAIN RobotKeys :
            /\ RobotKeys[i] \notin DOMAIN record
            /\ \A j \in 1..(i - 1) : RobotKeys[j] \in DOMAIN record

\* the loop of refresh_robots over resp.json(): one new Robot per record, added
\* to _robots; a record that lacks a key ends the loop with a KeyError
RECURSIVE AddRobots(_, _)
AddRobots(f, body) ==
    IF body = <<>> THEN f
    ELSE LET record == Head(body)
             k == MissingKey(record)
         IN  IF k # 0
             THEN [f EXCEPT !.exc = KeyError(RobotKeys[k])]
             ELSE AddRobots(
                    [f EXCEPT !.robots = @ \cup
                        {Robot(NewIdent(f.robots), record.name, record.serial,
                               record.secret_key, record.traits)}],
                    Tail(body))

\* refresh_robots that empties _robots before it adds the robots of the response
refresh_robots_clearing(f, resp) ==
    LET f1 == [f EXCEPT
                 !.reqs = Append(@, Get(urljoin(ENDPOINT, "users/me/robots"), _headers)),
                 !.resp = resp]
    IN  IF raise_for_status(resp.status)
        THEN [f1 EXCEPT !.exc = HTTPError(resp.status)]
        ELSE AddRobots([f1 EXCEPT !.robots = {}], resp.body)

\* refresh_robots that empties both caches before it sends its GET
refresh_robots_resetting(f, resp) ==
    LET f1 == [f EXCEPT
                 !.reqs = Append(@, Get(urljoin(ENDPOINT, "users/me/robots"), _headers)),
                 !.resp = resp,
                 !.robots = {},
                 !.maps = EmptyDict]
    IN  IF raise_for_status(resp.status)
        THEN [f1 EXCEPT !.exc = HTTPError(resp.status)]
        ELSE AddRobots(f1, resp.body)

\* refresh_robots that sends the headers of the login request
refresh_robots_login_headers(f, resp) ==
    LET f1 == [f EXCEPT
                 !.reqs = Append(@, Get(urljoin(ENDPOINT, "users/me/robots"),
                                        [Accept |-> "application/vnd.neato.nucleo.v1"])),
                 !.resp = resp]
    IN  IF raise_for_status(resp.status)
        THEN [f1 EXCEPT !.exc = HTTPError(resp.status)]
        ELSE AddRobots(f1, resp.body)

\* Session.refresh_robots, given the response to its GET
refresh_robots(f, resp) ==
    LET f1 == [f EXCEPT
                 !.reqs = Append(@, Get(urljoin(ENDPOINT, "users/me/robots"), _headers)),
                 !.resp = resp]
    IN  IF raise_for_status(resp.status)
        THEN [f1 EXCEPT !.exc = HTTPError(resp.status)]
        ELSE AddRobots(f1, resp.body)

\* robots without the emptiness test: every read refreshes
robots_unmemoized(f, resp) == refresh_robots(f, resp)

\* robots that returns the cached set without ever refreshing it
robots_never_refreshing(f, resp) == f

\* Session.robots (property): refreshes when _robots is empty
robots(f, resp) ==
    IF f.robots = {} THEN refresh_robots(f, resp) ELSE f

\* the loop of refresh_maps with one retry of a failed GET before it raises
RECURSIVE MapsLoop_retrying(_, _, _)
MapsLoop_retrying(f, order, mresps) ==
    IF order = <<>> THEN f
    ELSE LET robot == Head(order)
             resp2 == Head(mresps)
             get == Get(urljoin(ENDPOINT, MapsPath(robot.serial)), _headers)
             f1 == [f EXCEPT
                      !.reqs = Append(@, get),
                      !.iter = Append(@, [robot |-> robot, resp |-> resp2])]
         IN  IF raise_for_status(resp2.status)
             THEN [f1 EXCEPT !.reqs = Append(@, get), !.exc = HTTPError(resp2.status)]
             ELSE MapsLoop_retrying(
                    [f1 EXCEPT !.maps = DictUpdate(@, robot.serial, resp2.body)],
                    Tail(order), Tail(mresps))

\* the loop of refresh_maps with setdefault in place of update: an entry that
\* exists is kept
RECURSIVE MapsLoop_keeping(_, _, _)
MapsLoop_keeping(f, order, mresps) ==
    IF order = <<>> THEN f
    ELSE LET robot == Head(order)
             resp2 == Head(mresps)
             f1 == [f EXCEPT
                      !.reqs = Append(@, Get(urljoin(ENDPOINT, MapsPath(robot.serial)),
                                             _headers)),
                      !.iter = Append(@, [robot |-> robot, resp |-> resp2])]
         IN  IF raise_for_status(resp2.status)
             THEN [f1 EXCEPT !.exc = HTTPError(resp2.status)]
             ELSE MapsLoop_keeping(
                    [f1 EXCEPT !.maps = IF robot.serial \in DOMAIN @ THEN @
                                        ELSE DictUpdate(@, robot.serial, resp2.body)],
                    Tail(order), Tail(mresps))

\* the loop of refresh_maps: robots in iteration order, mresps[i] the response to
\* the i-th GET
RECURSIVE MapsLoop(_, _, _)
MapsLoop(f, order, mresps) ==
    IF order = <<>> THEN f
    ELSE LET robot == Head(order)
             resp2 == Head(mresps)
             f1 == [f EXCEPT
                      !.reqs = Append(@, Get(urljoin(ENDPOINT, MapsPath(robot.serial)),
                                             _headers)),
                      !.iter = Append(@, [robot |-> robot, resp |-> resp2])]
         IN  IF raise_for_status(resp2.status)
             THEN [f1 EXCEPT !.exc = HTTPError(resp2.status)]
             ELSE MapsLoop([f1 EXCEPT !.maps = DictUpdate(@, robot.serial, resp2.body)],
                           Tail(order), Tail(mresps))

\* refresh_maps that goes on with the robots already cached when the refresh
\* of the robot list raised
refresh_maps_ignoring_failure(f, resp, order, mresps) ==
    LET f1 == robots(f, resp)
    IN  IF f1.exc = NoExc THEN MapsLoop(f1, order, mresps)
        ELSE MapsLoop([f1 EXCEPT !.exc = NoExc],
                      CHOOSE o \in Orders(f1.robots) : TRUE,
                      [i \in 1..Cardinality(f1.robots) |->
                          [status |-> 200, body |-> "maps-v1"]])

\* refresh_maps that restores _maps when a GET fails
refresh_maps_rollback(f, resp, order, mresps) ==
    LET f1 == robots(f, resp)
        f2 == IF f1.exc # NoExc THEN f1 ELSE MapsLoop(f1, order, mresps)
    IN  IF f2.exc # NoExc THEN [f2 EXCEPT !.maps = f.maps] ELSE f2

\* Session.refresh_maps: `for robot in self.robots` reads the accessor first
refresh_maps(f, resp, order, mresps) ==
    LET f1 == robots(f, resp)
    IN  IF f1.exc # NoExc THEN f1 ELSE MapsLoop(f1, order, mresps)

\* maps that returns the cached mapping once it holds entries
maps_memoized(f, resp, order, mresps) ==
    IF f.maps # EmptyDict THEN f ELSE refresh_maps(f, resp, order, mresps)

\* Session.maps (property)
maps(f, resp, order, mresps) == refresh_maps(f, resp, order, mresps)

\* the dict comprehension of persistent_maps, in iteration order
RECURSIVE PMapsLoop(_, _)
PMapsLoop(d, order) ==
    IF order = <<>> THEN d
    ELSE PMapsLoop(DictUpdate(d, Head(order).serial, RobotPersistentMaps(Head(order))),
                   Tail(order))

\* persistent_maps that refreshes the maps of its robots on the way
persistent_maps_refreshing(f, resp, order) ==
    LET f1 == refresh_maps(f, resp, order,
                           [i \in DOMAIN order |-> [status |-> 200, body |-> "maps-v1"]])
    IN  IF f1.exc # NoExc THEN f1 ELSE [f1 EXCEPT !.ret = PMapsLoop(EmptyDict, order)]

\* Session.persistent_maps (property)
persistent_maps(f, resp, order) ==
    LET f1 == robots(f, resp)
    IN  IF f1.exc # NoExc THEN f1 ELSE [f1 EXCEPT !.ret = PMapsLoop(EmptyDict, order)]

\* requests.get(url, stream=True, timeout=10) as it appears on the wire
GetStream(url) == [method |-> "GET", url |-> url, stream |-> TRUE, timeout |-> 10]

\* url.rsplit('/', 2)[1] + '-' + url.rsplit('/', 1)[1], cut at the first '?'
ImageFilename(url) == url.dir \o "-" \o url.file

\* os.path.join(dest_path, image_filename)
PathJoin(dir, name) == dir \o "/" \o name

\* get_map_image that checks the status before it looks at dest_path
get_map_image_checked(f, url, dest_path, resp) ==
    LET f1 == [f EXCEPT !.reqs = Append(@, GetStream(UrlString(url))),
                        !.resp = resp,
                        !.arg = dest_path]
    IN  IF raise_for_status(resp.status)
        THEN [f1 EXCEPT !.exc = HTTPError(resp.status)]
        ELSE IF dest_path # ""
        THEN [f1 EXCEPT
                !.disk = DictUpdate(@, PathJoin(dest_path, ImageFilename(url)), resp.body),
                !.raw = Stream(resp.body, TRUE)]
        ELSE [f1 EXCEPT !.raw = Stream(resp.body, FALSE)]

\* Session.get_map_image (static), given the response to its GET
get_map_image(f, url, dest_path, resp) ==
    LET f1 == [f EXCEPT !.reqs = Append(@, GetStream(UrlString(url))),
                        !.resp = resp,
                        !.arg = dest_path]
    IN  IF dest_path # ""
        THEN IF raise_for_status(resp.status)
             THEN [f1 EXCEPT !.exc = HTTPError(resp.status)]
             ELSE [f1 EXCEPT
                     !.disk = DictUpdate(@, PathJoin(dest_path, ImageFilename(url)),
                                         resp.body),
                     !.raw = Stream(resp.body, TRUE)]
        ELSE [f1 EXCEPT !.raw = Stream(resp.body, FALSE)]

(***************************************************************************)
(* Account.                                                                *)
(***************************************************************************)
\* login_basic without raise_for_status
login_basic_unchecked(f, email, password, nonce, resp) ==
    LET headers == [Accept |-> "application/vnd.neato.nucleo.v1"]
        json == [email |-> email, password |-> password, platform |-> "ios",
                 token |-> nonce]
        f1 == [f EXCEPT !.reqs = Append(@, Post(urljoin(ENDPOINT, "sessions"), json, headers)),
                        !.resp = resp]
    IN  IF "access_token" \notin DOMAIN resp.body
        THEN [f1 EXCEPT !.exc = KeyError("access_token")]
        ELSE f1

\* Account.login_basic up to the construction of the Session
login_basic(f, email, password, nonce, resp) ==
    LET headers == [Accept |-> "application/vnd.neato.nucleo.v1"]
        json == [email |-> email, password |-> password, platform |-> "ios",
                 token |-> nonce]
        f1 == [f EXCEPT !.reqs = Append(@, Post(urljoin(ENDPOINT, "sessions"), json, headers)),
                        !.resp = resp]
    IN  IF raise_for_status(resp.status)
        THEN [f1 EXCEPT !.exc = HTTPError(resp.status)]
        ELSE IF "access_token" \notin DOMAIN resp.body
        THEN [f1 EXCEPT !.exc = KeyError("access_token")]
        ELSE f1

(***************************************************************************)
(* The inputs a call consumes.                                             *)
(***************************************************************************)
\* the robots responses a call through the accessor can receive: the remote
\* service answers only a request that is made (NoResp when none is)
AccessorResps(f) == {robots(f, resp).resp : resp \in RobotsResps}

\* the responses to the maps GETs of one loop over n robots: all succeed, or
\* the k-th fails after k-1 successes and no later GET is answered
OkMapsResps == {r \in MapsResps : ~raise_for_status(r.status)}
ErrMapsResps == {r \in MapsResps : raise_for_status(r.status)}
MapsRespSeqs(n) ==
    [1..n -> OkMapsResps]
    \cup UNION {{Append(s, e) : s \in [1..(k - 1) -> OkMapsResps], e \in ErrMapsResps}
                : k \in 1..n}

(***************************************************************************)
(* Actions: one per operation a caller can invoke.                         *)
(***************************************************************************)
\* Session.__init__
SessionInit(provider) ==
    /\ session' = "live"
    /\ auth_provider' = provider
    /\ _robots' = {}
    /\ robot_serials' = EmptyDict
    /\ _maps' = EmptyDict
    /\ _headers' = generate_headers(provider)
    /\ _persistent_maps' = EmptyDict

\* the end of a call that also keeps the mapping of a persistent_maps read in
\* _persistent_maps
Finish_caching(f) ==
    /\ _robots' = f.robots
    /\ _maps' = f.maps
    /\ files' = f.disk
    /\ last' = Seen(f)
    /\ _persistent_maps' = IF f.op = "persistent_maps" THEN f.ret ELSE _persistent_maps
    /\ UNCHANGED <<session, auth_provider, robot_serials, _headers, thr>>

\* a Session call ends: the fields it changed, and what its caller saw
Finish(f) ==
    /\ _robots' = f.robots
    /\ _maps' = f.maps
    /\ files' = f.disk
    /\ last' = Seen(f)
    /\ UNCHANGED <<session, auth_provider, robot_serials, _headers, _persistent_maps,
                   thr>>

\* Account.login_basic(email, password)
LoginBasic ==
    /\ session = "none"
    /\ \E email \in Emails, password \in Passwords, nonce \in Nonces,
          resp \in SessionsResps :
          LET f == login_basic(Frame("login_basic"), email, password, nonce, resp)
          IN  /\ last' = Seen(f)
              /\ UNCHANGED <<files, thr>>
              /\ IF f.exc = NoExc
                 THEN SessionInit(BasicAuthProvider(resp.body.access_token))
                 ELSE UNCHANGED <<session, auth_provider, _robots, robot_serials,
                                  _maps, _headers, _persistent_maps>>

\* login_oauth that validates the token with a request before it returns
LoginOAuth_validating ==
    /\ session = "none"
    /\ \E oauth_token \in Tokens :
          /\ last' = Seen([Frame("login_oauth") EXCEPT
                             !.arg = oauth_token,
                             !.reqs = <<Get(urljoin(ENDPOINT, "users/me/robots"),
                                            generate_headers(OAuthProvider(oauth_token)))>>])
          /\ UNCHANGED <<files, thr>>
          /\ SessionInit(OAuthProvider(oauth_token))

\* Account.login_oauth(oauth_token)
LoginOAuth ==
    /\ session = "none"
    /\ \E oauth_token \in Tokens :
          /\ last' = Seen([Frame("login_oauth") EXCEPT !.arg = oauth_token])
          /\ UNCHANGED <<files, thr>>
          /\ SessionInit(OAuthProvider(oauth_token))

\* a read of session.robots
ReadRobots ==
    /\ session = "live"
    /\ \E resp \in AccessorResps(Frame("robots")) :
          Finish(robots(Frame("robots"), resp))

\* a call of session.refresh_robots()
CallRefreshRobots ==
    /\ session = "live"
    /\ \E resp \in RobotsResps :
          /\ Cardinality(_robots) + Len(resp.body) <= MaxRobots
          /\ Finish(refresh_robots(Frame("refresh_robots"), resp))

\* a read of session.maps
ReadMaps ==
    /\ session = "live"
    /\ \E resp \in AccessorResps(Frame("maps")) :
          LET n == Cardinality(robots(Frame("maps"), resp).robots)
          IN  \E order \in Orders(robots(Frame("maps"), resp).robots),
                 mresps \in MapsRespSeqs(n) :
                 Finish(maps(Frame("maps"), resp, order, mresps))

\* a call of session.refresh_maps()
CallRefreshMaps ==
    /\ session = "live"
    /\ \E resp \in AccessorResps(Frame("refresh_maps")) :
          LET n == Cardinality(robots(Frame("refresh_maps"), resp).robots)
          IN  \E order \in Orders(robots(Frame("refresh_maps"), resp).robots),
                 mresps \in MapsRespSeqs(n) :
                 Finish(refresh_maps(Frame("refresh_maps"), resp, order, mresps))

\* a read of session.persistent_maps
ReadPersistentMaps ==
    /\ session = "live"
    /\ \E resp \in AccessorResps(Frame("persistent_maps")) :
          \E order \in Orders(robots(Frame("persistent_maps"), resp).robots) :
             Finish(persistent_maps(Frame("persistent_maps"), resp, order))

\* a call of Session.get_map_image(url, dest_path); it needs no Session
CallGetMapImage ==
    \E url \in ImageUrls, dest_path \in DestPaths, resp \in ImageResps :
       Finish(get_map_image(Frame("get_map_image"), url, dest_path, resp))

Next ==
    \/ LoginBasic
    \/ LoginOAuth
    \/ ReadRobots
    \/ CallRefreshRobots
    \/ ReadMaps
    \/ CallRefreshMaps
    \/ ReadPersistentMaps
    \/ CallGetMapImage

Spec == Init /\ [][Next]_vars

(***************************************************************************)
(* Concurrent reads of session.robots.  Two callers share one Session that *)
(* login_oauth has just returned; each reads the accessor once.  A step is *)
(* what a thread does without another thread running in between: the test *)
(* of `not self._robots`, the GET with its status check, one pass of the   *)
(* loop that adds a Robot, the return.                                     *)
(***************************************************************************)
RaceInit ==
    /\ \E oauth_token \in Tokens :
          /\ session = "live"
          /\ auth_provider = OAuthProvider(oauth_token)
          /\ _headers = generate_headers(OAuthProvider(oauth_token))
          /\ _robots = {}
          /\ robot_serials = EmptyDict
          /\ _maps = EmptyDict
          /\ _persistent_maps = EmptyDict
          /\ files = EmptyDict
          /\ last = Seen([Frame("login_oauth") EXCEPT !.arg = oauth_token])
    /\ thr = [t \in Threads |-> Idle]

\* the Robot objects the running loops of the threads will still add
Pending == LET n1 == Len(thr["T1"].todo)
               n2 == Len(thr["T2"].todo)
           IN  n1 + n2

RaceFrame == UNCHANGED <<session, auth_provider, robot_serials, _maps, _headers,
                         _persistent_maps, files, last>>

\* thread t reads session.robots
TStart(t) ==
    /\ thr[t].pc = "idle"
    /\ thr' = [thr EXCEPT ![t].pc = "check"]
    /\ UNCHANGED _robots
    /\ RaceFrame

\* the test that waits until no other thread is between its test and its return
TCheck_locked(t) ==
    /\ thr[t].pc = "check"
    /\ \A u \in Threads \ {t} : thr[u].pc \notin {"get", "add"}
    /\ thr' = [thr EXCEPT ![t].pc = IF _robots = {} THEN "get" ELSE "done"]
    /\ UNCHANGED _robots
    /\ RaceFrame

\* `if not self._robots:` then refresh, else return the set
TCheck(t) ==
    /\ thr[t].pc = "check"
    /\ thr' = [thr EXCEPT ![t].pc = IF _robots = {} THEN "get" ELSE "done"]
    /\ UNCHANGED _robots
    /\ RaceFrame

\* refresh_robots: the GET and raise_for_status
TGet(t) ==
    /\ thr[t].pc = "get"
    /\ \E resp \in RobotsResps :
          /\ Cardinality(_robots) + Pending + Len(resp.body) <= MaxRobots
          /\ thr' = [thr EXCEPT
                       ![t].reqs = Append(@, Get(urljoin(ENDPOINT, "users/me/robots"),
                                                 _headers)),
                       ![t].resp = resp,
                       ![t].exc = IF raise_for_status(resp.status)
                                  THEN HTTPError(resp.status) ELSE NoExc,
                       ![t].todo = resp.body,
                       ![t].pc = IF raise_for_status(resp.status) THEN "done" ELSE "add"]
    /\ UNCHANGED _robots
    /\ RaceFrame

\* refresh_robots: one pass of `for robot in resp.json()`, or its end and the
\* return of the accessor
TAdd(t) ==
    /\ thr[t].pc = "add"
    /\ IF thr[t].todo = <<>>
       THEN /\ thr' = [thr EXCEPT ![t].pc = "done"]
            /\ UNCHANGED _robots
       ELSE LET record == Head(thr[t].todo)
                k == MissingKey(record)
            IN  IF k # 0
                THEN /\ thr' = [thr EXCEPT ![t].exc = KeyError(RobotKeys[k]),
                                           ![t].pc = "done"]
                     /\ UNCHANGED _robots
                ELSE /\ _robots' = _robots \cup
                          {Robot(NewIdent(_robots), record.name, record.serial,
                                 record.secret_key, record.traits)}
                     /\ thr' = [thr EXCEPT ![t].todo = Tail(@)]
    /\ RaceFrame

RaceNext ==
    \E t \in Threads : TStart(t) \/ TCheck(t) \/ TGet(t) \/ TAdd(t)

RaceSpec == RaceInit /\ [][RaceNext]_vars

(***************************************************************************)
(* Vocabulary of the properties.                                           *)
(***************************************************************************)
RobotsUrl == urljoin(ENDPOINT, "users/me/robots")
MapsUrls == {urljoin(ENDPOINT, MapsPath(s)) : s \in Serials}

\* how many of the requests are GETs to users/me/robots
RobotsGets(reqs) ==
    Cardinality({i \in DOMAIN reqs : reqs[i].method = "GET" /\ reqs[i].url = RobotsUrl})

\* the maps GETs among the requests, in order
MapsGets(reqs) ==
    SelectSeq(reqs, LAMBDA r : r.method = "GET" /\ r.url \in MapsUrls)

SerialsOf(rs) == {r.serial : r \in rs}

\* the operations after which no call has been made on the Session yet
LoginOps == {"none", "login_basic", "login_oauth"}

\* the last call ran into an error status on one of its maps GETs
MapsGetFailed(l) ==
    /\ l.op \in {"refresh_maps", "maps"}
    /\ l.exc.type = "HTTPError"
    /\ l.iter # <<>>

\* the robots the maps loop got through before the failing one
Before(l) == {l.iter[i].robot : i \in 1..(Len(l.iter) - 1)}

(***************************************************************************)
(* C1.  Memoization of robots.                                             *)
(***************************************************************************)
\* C1 as stated: after a read of `robots` that fetched the list with a
\* successful response and returned, the next read of `robots` issues no GET to
\* users/me/robots: the two reads issue exactly one in total.
C1_AsStated ==
    [][(/\ last.op = "robots" /\ last.exc = NoExc
        /\ last.resp.status \in OkStatus
        /\ last'.op = "robots")
       => RobotsGets(last.reqs) + RobotsGets(last'.reqs) = 1]_vars

\* C1 (amended): after a read of `robots` that fetched the list with a
\* successful response listing at least one robot and returned, the next read
\* of `robots` issues no request at all: the two reads issue exactly one GET to
\* users/me/robots in total.
C1_Memoized ==
    [][(/\ last.op = "robots" /\ last.exc = NoExc
        /\ last.resp.status \in OkStatus /\ last.resp.body # <<>>
        /\ last'.op = "robots")
       => /\ RobotsGets(last.reqs) + RobotsGets(last'.reqs) = 1
          /\ last'.reqs = <<>>
          /\ last'.exc = NoExc]_vars

\* the state between the two reads: the first fetched a non-empty list, and a
\* second read that issues nothing can follow
C1_Witness ==
    /\ last.op = "robots" /\ last.exc = NoExc
    /\ last.resp.status \in OkStatus /\ last.resp.body # <<>>
    /\ RobotsGets(last.reqs) = 1
    /\ ENABLED (ReadRobots /\ last'.reqs = <<>>)

(***************************************************************************)
(* C2.  Partial batch of refresh_maps.                                     *)
(***************************************************************************)
\* C2 as stated: after a refresh_maps() that failed on a maps GET, _maps holds
\* entries only for robots processed before the failing one.
C2_AsStated ==
    MapsGetFailed(last) => DOMAIN _maps \subseteq SerialsOf(Before(last))

\* C2 (amended): a refresh_maps() in which a maps GET returns an error status
\* fails with that HTTP error, and changes _maps only for the robots processed
\* before the failing one: each of them has an entry afterwards, every other
\* entry is exactly what it was before the call, and no entry is added for the
\* failing robot or for a robot after it.
C2_PartialBatch ==
    [][MapsGetFailed(last')
       => /\ last'.exc = HTTPError(last'.iter[Len(last'.iter)].resp.status)
          /\ SerialsOf(Before(last')) \subseteq DOMAIN _maps'
          /\ DOMAIN _maps' = DOMAIN _maps \cup SerialsOf(Before(last'))
          /\ \A s \in DOMAIN _maps' :
                s \notin SerialsOf(Before(last')) => _maps'[s] = _maps[s]
          /\ \A i \in 1..(Len(last'.iter) - 1) :
                (\A j \in (i + 1)..(Len(last'.iter) - 1) :
                    last'.iter[j].robot.serial # last'.iter[i].robot.serial)
                => _maps'[last'.iter[i].robot.serial] = last'.iter[i].resp.body]_vars

\* a refresh_maps() that failed on its second robot: the first robot's entry is
\* written, the failing robot's entry is the one an earlier refresh left
C2_Witness ==
    /\ MapsGetFailed(last) /\ last.op = "refresh_maps"
    /\ Len(last.iter) = 2
    /\ last.iter[1].robot.serial # last.iter[2].robot.serial
    /\ last.iter[1].robot.serial \in DOMAIN _maps
    /\ _maps[last.iter[1].robot.serial] = last.iter[1].resp.body
    /\ last.iter[2].robot.serial \in DOMAIN _maps

(***************************************************************************)
(* C3.  No memoization of maps.                                            *)
(***************************************************************************)
\* the maps GETs of a read of `maps` whose responses all succeeded: one per
\* robot of _robots, each to that robot's maps URL
OnePerRobot ==
    (last.op = "maps" /\ last.exc = NoExc)
    => /\ Len(last.iter) = Cardinality(_robots)
       /\ {last.iter[i].robot : i \in DOMAIN last.iter} = _robots
       /\ MapsGets(last.reqs) =
            [i \in DOMAIN last.iter |->
                Get(urljoin(ENDPOINT, MapsPath(last.iter[i].robot.serial)), _headers)]
       /\ Len(last.reqs) = Len(last.iter) + RobotsGets(last.reqs)

C4_PopulatedOnce ==
    /\ [](last.op \in LoginOps => _robots = {})
    /\ [][(_robots # {} /\ last'.op # "refresh_robots")
          => /\ _robots' = _robots
             /\ RobotsGets(last'.reqs) = 0]_vars

\* a read of maps on a populated Session: _robots is what the first fetch put
\* there, and no robots GET was issued
C4_Witness ==
    /\ last.op = "maps"
    /\ last.resp = NoResp
    /\ _robots # {}
    /\ RobotsGets(last.reqs) = 0
    /\ last.reqs # <<>>

(***************************************************************************)
(* C5.  Uniqueness by serial.                                              *)
(***************************************************************************)
\* C5: no two Robot objects of _robots have the same serial.
C5_UniqueBySerial ==
    \A r1, r2 \in _robots : r1.serial = r2.serial => r1 = r2

(***************************************************************************)
(* C6.  refresh_robots never removes.                                      *)
(***************************************************************************)
\* C6: no step removes a Robot from _robots, so the serials present only grow;
\* a refresh_robots() that returns adds one new Robot per record of its
\* response.
C6_NeverRemoves ==
    [][/\ _robots \subseteq _robots'
       /\ SerialsOf(_robots) \subseteq SerialsOf(_robots')
       /\ (last'.op = "refresh_robots" /\ last'.exc = NoExc)
          => Cardinality(_robots') = Cardinality(_robots) + Len(last'.resp.body)]_vars

\* after a refresh_robots() whose response no longer lists a serial, a Robot
\* with that serial is still in _robots
C6_Witness ==
    /\ last.op = "refresh_robots" /\ last.exc = NoExc
    /\ last.resp.body # <<>>
    /\ \E r \in _robots :
          \A i \in DOMAIN last.resp.body : last.resp.body[i].serial # r.serial

(***************************************************************************)
(* C7.  refresh_robots on an error status.                                 *)
(***************************************************************************)
\* C7: a call whose GET to users/me/robots is answered with an error status
\* (refresh_robots() itself, or a call that triggers it through the robots
\* accessor) ends with the HTTP error of that status, issues no further
\* request, and leaves _robots and _maps as they were.
C7_RobotsErrorPropagates ==
    [][(/\ session = "live"
        /\ RobotsGets(last'.reqs) > 0
        /\ raise_for_status(last'.resp.status))
       => /\ last'.exc = HTTPError(last'.resp.status)
          /\ Len(last'.reqs) = 1
          /\ _robots' = _robots
          /\ _maps' = _maps]_vars

\* an explicit refresh_robots() that failed on a Session with robots and maps
C7_Witness ==
    /\ last.op = "refresh_robots"
    /\ last.exc.type = "HTTPError"
    /\ _robots # {}
    /\ _maps # EmptyDict

(***************************************************************************)
(* C8.  Header snapshot.                                                   *)
(***************************************************************************)
\* C8: _headers is set from the auth provider when the Session is constructed
\* and never changes afterwards; every GET of refresh_robots() and
\* refresh_maps() carries exactly these headers.
C8_HeaderSnapshot ==
    /\ [](session = "live"
          => \A i \in DOMAIN last.reqs :
                (last.reqs[i].method = "GET" /\ last.op # "get_map_image")
                => last.reqs[i].headers = _headers)
    /\ [][/\ (session = "none" /\ session' = "live")
             => _headers' = generate_headers(auth_provider')
          /\ session = "live" => (_headers' = _headers /\ session' = "live")]_vars

\* a read of maps that issued the robots GET and two maps GETs
C8_Witness ==
    /\ last.op = "maps"
    /\ RobotsGets(last.reqs) = 1
    /\ Len(MapsGets(last.reqs)) = 2
    /\ \A i \in DOMAIN last.reqs : last.reqs[i].headers = generate_headers(auth_provider)

(***************************************************************************)
(* C9.  login_basic.                                                       *)
(***************************************************************************)
\* C9: login_basic issues one POST to sessions; it returns a Session only on a
\* 2xx response, and the Session's Authorization header is then `Token token=`
\* followed by the access_token of that response; on an error status it fails
\* with the HTTP error of that status and there is no Session.
C9_LoginBasic ==
    last.op = "login_basic"
    => /\ Len(last.reqs) = 1
       /\ last.reqs[1].method = "POST"
       /\ last.reqs[1].url = urljoin(ENDPOINT, "sessions")
       /\ session = "live"
          => /\ last.exc = NoExc
             /\ last.resp.status \in OkStatus
             /\ "access_token" \in DOMAIN last.resp.body
             /\ auth_provider = BasicAuthProvider(last.resp.body.access_token)
             /\ _headers.Authorization = "Token token=" \o last.resp.body.access_token
       /\ raise_for_status(last.resp.status)
          => /\ last.exc = HTTPError(last.resp.status)
             /\ session = "none"
       /\ last.exc = NoExc => session = "live"

\* a login_basic that returned a Session
C9_Witness ==
    /\ last.op = "login_basic"
    /\ session = "live"
    /\ \E t \in Tokens : /\ last.resp.body = [access_token |-> t]
                         /\ _headers.Authorization = "Token token=" \o t

(***************************************************************************)
(* C10.  login_oauth.                                                      *)
(***************************************************************************)
\* C10: login_oauth issues no request and returns a Session with empty _robots
\* and _maps whose Authorization header is `Bearer ` followed by the token it
\* was called with; the Session's first request is issued by a later call.
C10_LoginOAuth ==
    last.op = "login_oauth"
    => /\ session = "live"
       /\ last.exc = NoExc
       /\ last.reqs = <<>>
       /\ _robots = {}
       /\ _maps = EmptyDict
       /\ auth_provider = OAuthProvider(last.arg)
       /\ _headers.Authorization = "Bearer " \o last.arg

\* a Session just returned by login_oauth, whose first request a read of robots
\* can issue next
C10_Witness ==
    /\ last.op = "login_oauth"
    /\ session = "live"
    /\ last.arg \in Tokens
    /\ ENABLED (ReadRobots /\ Len(last'.reqs) = 1)

(***************************************************************************)
(* C11.  get_map_image.                                                    *)
(***************************************************************************)
\* C11: get_map_image issues one GET without the Session's headers and
\* changes no field of the Session.  With dest_path omitted it writes no
\* file and returns the unread byte stream of the response, whatever its
\* status.  With dest_path set, an error status raises the HTTP error and no
\* file is written; a 2xx response is written to
\* <dest_path>/<dir>-<file> and the stream is returned.
C11_GetMapImage ==
    [][last'.op = "get_map_image"
       => /\ Len(last'.reqs) = 1
          /\ last'.reqs[1].method = "GET"
          /\ "headers" \notin DOMAIN last'.reqs[1]
          /\ UNCHANGED <<session, auth_provider, _robots, robot_serials, _maps,
                         _headers, _persistent_maps>>
          /\ last'.arg = ""
             => /\ files' = files
                /\ last'.exc = NoExc
                /\ last'.raw = Stream(last'.resp.body, FALSE)
          /\ (last'.arg # "" /\ raise_for_status(last'.resp.status))
             => /\ last'.exc = HTTPError(last'.resp.status)
                /\ files' = files
                /\ last'.raw = NoStream
          /\ (last'.arg # "" /\ ~raise_for_status(last'.resp.status))
             => /\ last'.exc = NoExc
                /\ last'.raw.bytes = last'.resp.body
                /\ \E url \in ImageUrls :
                      /\ UrlString(url) = last'.reqs[1].url
                      /\ files' = DictUpdate(files,
                                             last'.arg \o "/" \o url.dir \o "-" \o url.file,
                                             last'.resp.body)]_vars

\* a get_map_image without dest_path that returned the stream of an error
\* response, on a Session with robots and after an earlier call wrote a file
C11_Witness ==
    /\ last.op = "get_map_image"
    /\ last.arg = ""
    /\ raise_for_status(last.resp.status)
    /\ last.exc = NoExc
    /\ last.raw = Stream(ErrorBytes, FALSE)
    /\ files # EmptyDict
    /\ _robots # {}

(***************************************************************************)
(* C12.  Request ordering.                                                 *)
(***************************************************************************)
\* the serials of the robots response of a call, when it was a 2xx response
FetchedBy(l) ==
    IF RobotsGets(l.reqs) > 0 /\ ~raise_for_status(l.resp.status)
    THEN {l.resp.body[i].serial : i \in DOMAIN l.resp.body}
    ELSE {}

\* the robots fetch of a call raised: an error status, or a record lacking a key
FetchRaised(l) ==
    /\ RobotsGets(l.reqs) > 0
    /\ \/ raise_for_status(l.resp.status)
       \/ \E i \in DOMAIN l.resp.body : MissingKey(l.resp.body[i]) # 0

\* C12: a Robot enters _robots only from a 2xx response to GET users/me/robots,
\* and every maps GET is for the serial of a Robot of _robots; a call that
\* fetches the robot list does it with its first request, before any maps GET,
\* and issues no maps GET when that fetch raised.
C12_RobotsBeforeMaps ==
    [][/\ SerialsOf(_robots') \subseteq SerialsOf(_robots) \cup FetchedBy(last')
       /\ \A i \in DOMAIN last'.reqs :
             last'.reqs[i].url \in MapsUrls
             => /\ \E r \in _robots' :
                      last'.reqs[i].url = urljoin(ENDPOINT, MapsPath(r.serial))
                /\ RobotsGets(last'.reqs) > 0
                   => /\ last'.reqs[1].url = RobotsUrl
                      /\ i > 1
                      /\ ~raise_for_status(last'.resp.status)
       /\ FetchRaised(last')
          => /\ last'.exc # NoExc
             /\ Len(last'.reqs) = 1
             /\ last'.reqs[1].url = RobotsUrl]_vars

\* the first refresh_maps() of a Session: the robots GET, then a maps GET for
\* each serial of its response
C12_Witness ==
    /\ last.op = "refresh_maps"
    /\ Len(last.reqs) = 3
    /\ last.reqs[1].url = RobotsUrl
    /\ last.reqs[2].url \in MapsUrls
    /\ last.reqs[3].url \in MapsUrls
    /\ FetchedBy(last) = Serials

(***************************************************************************)
(* C13.  Abort without retry.                                              *)
(***************************************************************************)
\* C13: when a maps GET of refresh_maps() returns an error status, it is the
\* last request of the call: each robot visited got exactly one GET, the
\* responses before the failing one were successes, and the number of maps GETs
\* is the position of the failing robot in the iteration.
C13_AbortNoRetry ==
    MapsGetFailed(last)
    => /\ Len(MapsGets(last.reqs)) = Len(last.iter)
       /\ MapsGets(last.reqs) =
            [i \in DOMAIN last.iter |->
                Get(urljoin(ENDPOINT, MapsPath(last.iter[i].robot.serial)), _headers)]
       /\ \A i, j \in DOMAIN last.iter :
             last.iter[i].robot = last.iter[j].robot => i = j
       /\ \A i \in DOMAIN last.iter :
             raise_for_status(last.iter[i].resp.status) <=> i = Len(last.iter)
       /\ last.reqs[Len(last.reqs)].url =
            urljoin(ENDPOINT, MapsPath(last.iter[Len(last.iter)].robot.serial))
       /\ last.exc = HTTPError(last.iter[Len(last.iter)].resp.status)

\* a refresh_maps() over two robots that failed on the first: one maps GET
C13_Witness ==
    /\ MapsGetFailed(last)
    /\ Cardinality(_robots) = 2
    /\ Len(last.iter) = 1
    /\ Len(MapsGets(last.reqs)) = 1

(***************************************************************************)
(* C14.  Overwrite on success.                                             *)
(***************************************************************************)
\* the position of the last robot with serial s the maps loop visited
LastVisit(l, s) ==
    CHOOSE i \in DOMAIN l.iter :
       /\ l.iter[i].robot.serial = s
       /\ \A j \in DOMAIN l.iter : l.iter[j].robot.serial = s => j <= i

\* C14: after a refresh_maps() whose responses all succeeded, _maps has for
\* every robot of _robots the response received for its serial in this call
\* (the last one when robots share the serial); no step ever deletes an entry
\* of _maps.
C14_Overwrite ==
    /\ []((last.op \in {"refresh_maps", "maps"} /\ last.exc = NoExc)
          => \A r \in _robots :
                /\ r.serial \in DOMAIN _maps
                /\ \E i \in DOMAIN last.iter : last.iter[i].robot = r
                /\ _maps[r.serial] = last.iter[LastVisit(last, r.serial)].resp.body)
    /\ [][DOMAIN _maps \subseteq DOMAIN _maps']_vars

\* a refresh_maps() over two robots of one serial whose responses differ: the
\* entry is the response to the second
C14_Witness ==
    /\ last.op = "refresh_maps" /\ last.exc = NoExc
    /\ Len(last.iter) = 2
    /\ last.iter[1].robot.serial = last.iter[2].robot.serial
    /\ last.iter[1].resp.body # last.iter[2].resp.body
    /\ _maps[last.iter[2].robot.serial] = last.iter[2].resp.body

(***************************************************************************)
(* C15.  When the robots GET is issued.                                    *)
(***************************************************************************)
\* C15: a read of robots, maps or persistent_maps issues the GET to
\* users/me/robots exactly when _robots is empty at the moment of the read,
\* also after an earlier refresh failed or returned an empty list.
C15_GetIffEmpty ==
    [][last'.op \in {"robots", "maps", "persistent_maps"}
       => RobotsGets(last'.reqs) = (IF _robots = {} THEN 1 ELSE 0)]_vars

\* a read of robots got a 2xx response with an empty list, and the next read
\* can issue the GET again
C15_Witness ==
    /\ last.op = "robots" /\ last.exc = NoExc
    /\ RobotsGets(last.reqs) = 1
    /\ last.resp.body = <<>>
    /\ _robots = {}
    /\ ENABLED (ReadRobots /\ RobotsGets(last'.reqs) = 1 /\ _robots' # {})

(***************************************************************************)
(* C17.  persistent_maps.                                                  *)
(***************************************************************************)
\* C17: a read of persistent_maps fetches the robot list only when _robots is
\* empty, issues no maps GET, leaves _maps and _persistent_maps as they were,
\* and returns a mapping whose keys are exactly the serials of the robots of
\* _robots, each value the persistent maps of a robot with that serial.
C17_PersistentMaps ==
    [][last'.op = "persistent_maps"
       => /\ _maps' = _maps
          /\ _persistent_maps' = _persistent_maps
          /\ MapsGets(last'.reqs) = <<>>
          /\ Len(last'.reqs) = (IF _robots = {} THEN 1 ELSE 0)
          /\ last'.exc = NoExc
             => /\ DOMAIN last'.ret = SerialsOf(_robots')
                /\ \A s \in DOMAIN last'.ret :
                      \E r \in _robots' :
                         r.serial = s /\ last'.ret[s] = RobotPersistentMaps(r)
          /\ last'.exc # NoExc => last'.ret = EmptyDict]_vars

\* a read of persistent_maps on a Session with two robots and filled _maps
C17_Witness ==
    /\ last.op = "persistent_maps" /\ last.exc = NoExc
    /\ DOMAIN last.ret = Serials
    /\ last.reqs = <<>>
    /\ DOMAIN _maps = Serials

(***************************************************************************)
(* C18.  Keys of _maps.                                                    *)
(***************************************************************************)
\* C18: every key of _maps is the serial of a robot of _robots.
C18_MapsKeysAreRobots ==
    DOMAIN _maps \subseteq SerialsOf(_robots)

\* after a refresh_maps() that failed on its second robot, _maps has the
\* first robot's serial only
C18_Witness ==
    /\ MapsGetFailed(last)
    /\ Len(last.iter) = 2
    /\ DOMAIN _maps = {last.iter[1].robot.serial}
    /\ SerialsOf(_robots) = Serials

(***************************************************************************)
(* C19.  Dead fields.                                                      *)
(***************************************************************************)
\* C19: robot_serials and _persistent_maps are empty mappings in every state.
C19_DeadFields ==
    /\ robot_serials = EmptyDict
    /\ _persistent_maps = EmptyDict

\* a read of persistent_maps returned a mapping and the fields are still empty
C19_Witness ==
    /\ last.op = "persistent_maps"
    /\ last.ret # EmptyDict
    /\ _maps # EmptyDict
    /\ robot_serials = EmptyDict
    /\ _persistent_maps = EmptyDict

(***************************************************************************)
(* C16.  The read-check-then-write race of robots.                         *)
(***************************************************************************)
\* thread t is between its emptiness test and its return
InFlight(t) == thr[t].pc \in {"get", "add"}

\* thread t has returned from a fetch that added every record of its response
Fetched(t) ==
    /\ thr[t].pc = "done"
    /\ Len(thr[t].reqs) = 1
    /\ thr[t].exc = NoExc

\* C16: nothing orders concurrent reads of robots.  A reader at the emptiness
\* test passes it whenever _robots is empty, also while another reader is
\* between its own test and its return; each reader that passed issues its own
\* GET, and when readers have returned from their fetches _robots holds one
\* Robot per record of each of their responses.  Only a read that starts when
\* no other read is in flight and _robots is populated issues no GET.
C16_Race ==
    /\ [](\A t \in Threads :
            (thr[t].pc = "check" /\ _robots = {})
            => ENABLED (TCheck(t) /\ thr'[t].pc = "get"))
    /\ [](\A t \in Threads :
            /\ thr[t].pc \in {"add"} => Len(thr[t].reqs) = 1
            /\ (thr[t].pc = "done" /\ thr[t].reqs = <<>>) => _robots # {})
    /\ []((\A t \in Threads : Fetched(t))
          => Cardinality(_robots) = Len(thr["T1"].resp.body) + Len(thr["T2"].resp.body))
    /\ [][\A t \in Threads :
            (/\ thr[t].pc = "check" /\ thr'[t].pc # "check"
             /\ \A u \in Threads \ {t} : ~InFlight(u)
             /\ _robots # {})
            => thr'[t].pc = "done" /\ thr'[t].reqs = <<>>]_vars

\* both readers passed the test, both issued the GET, both added the Robot of
\* their response: two requests, and two Robot objects of one serial
C16_Witness ==
    /\ \A t \in Threads : Fetched(t) /\ Len(thr[t].resp.body) = 1
    /\ thr["T1"].resp = thr["T2"].resp
    /\ Cardinality(_robots) = 2
    /\ Cardinality(SerialsOf(_robots)) = 1

====
